---- MODULE Spec2Model ----
(***************************************************************************)
(* The interaction state machine of the NomSense question/answer page      *)
(* (frontend/src/App.tsx): the request lifecycle of handleSubmit, the      *)
(* citation selection and expansion handlers, the derived values           *)
(* resolvedSource, resolvedSourceLabel, isActive and key, and the          *)
(* zero-delay scroll timers.                                               *)
(*                                                                         *)
(* JavaScript values are tagged records, so that null, undefined, numbers  *)
(* and strings stay distinct and comparable: Undefined, JSNull, Num(n),    *)
(* Str(s), Arr(seq).  Every event handler runs to completion and React     *)
(* re-renders before the next event, so one handler is one action.  The    *)
(* only suspension point is the await in handleSubmit: the part before it  *)
(* is the action HandleSubmit, the continuation is SettleSuccess or        *)
(* SettleFailure.  Handlers only run in a browser, where window is         *)
(* defined, so the scroll helpers always reach their setTimeout.           *)
(***************************************************************************)
EXTENDS Integers, Sequences, FiniteSets, TLC

VARIABLES request, answer, selectedSource, loading, error, expandedKey,
          answerHighlighted, inflight, timers, last, done

vars == <<request, answer, selectedSource, loading, error, expandedKey,
          answerHighlighted, inflight, timers, last, done>>

------------------------------------------------------------------------------
(* Bounds of the model *)

\* the most answer-service calls pending at once
MaxInFlight == 2

\* the most zero-delay timers pending at once
MaxTimers == 2

\* the most parameters in the fragment of a generated viewer link
MaxParams == 2

\* the most scroll requests counted in SpecScroll
MaxScrolls == 3

------------------------------------------------------------------------------
(* JavaScript values *)

Undefined == [t |-> "undefined"]

JSNull == [t |-> "null"]

Num(n) == [t |-> "number", v |-> n]

Str(s) == [t |-> "string", v |-> s]

Arr(s) == [t |-> "array", v |-> s]

\* a ?? b
Nullish(a, b) == IF a = Undefined \/ a = JSNull THEN b ELSE a

\* a test for presence where the code tests truthiness
Truthy_present(a) == a # Undefined /\ a # JSNull

\* the truthiness of an optional number or string
Truthy(a) == /\ a # Undefined
             /\ a # JSNull
             /\ a # Num(0)
             /\ a # Str("")

\* the text a template literal gives a string or a number
Text(a) == IF a.t = "number" THEN ToString(a.v) ELSE a.v

------------------------------------------------------------------------------
(* The inputs: requests, citations, responses and rejections *)

DEFAULT_REQUEST ==
    [question |-> "q0", top_k |-> 10, pool_size |-> 20, rerank |-> TRUE]

\* what the user can type into the textarea
Questions == {"q0", "q1"}

Source(label, file, page, url) ==
    [label |-> label, file_name |-> file, page_number |-> page,
     viewer_url |-> url, text |-> "excerpt"]

srcA3 == Source("A", Str("a.pdf"), Num(3), Str("/a.pdf#page=3"))

srcB == Source("B", Undefined, JSNull, Undefined)

\* shares its label with srcA3, on another page and under another link
srcA7 == Source("A", Str("a.pdf"), Num(7), Str("/a.pdf#page=7&search=x"))

\* a page_number of 0
srcC0 == Source("C", Str("c.pdf"), Num(0), Str("/c.pdf"))

\* no page_number at all
srcD == Source("D", Undefined, Undefined, Str(""))

Response(sources) == [answer |-> "answer", sources |-> sources]

\* what askQuestion can resolve with
Responses ==
    { Response(Undefined),
      Response(Arr(<<>>)),
      Response(Arr(<<srcA3, srcB>>)),
      Response(Arr(<<srcA3, srcA7>>)),
      Response(Arr(<<srcC0, srcD>>)) }

\* the parameters a generated fragment is made of
ParamPool == {"page=2", "search=foo", "zoom", "search"}

RECURSIVE Fragments(_)
\* the fragments of at most n parameters
Fragments(n) ==
    IF n = 0 THEN {""}
    ELSE Fragments(n - 1) \cup
         { (IF f = "" THEN p ELSE f \o "&" \o p) :
               f \in Fragments(n - 1), p \in ParamPool }

\* the viewer_url values of the responses of SpecUrl: absent, null and
\* empty links, a link the resolver cannot resolve, a malformed one, rooted
\* paths, and absolute links without a fragment and with every generated
\* fragment (the empty one included)
ViewerUrls ==
    { Undefined, JSNull, Str(""), Str("doc.pdf#search=foo"),
      Str("https://[bad/doc#search=foo"), Str("/doc"),
      Str("/doc#search=foo&page=2"), Str("https://host/doc") }
    \cup { Str("https://host/doc#" \o f) : f \in Fragments(MaxParams) }

\* a response whose one citation carries the link
LinkResponse(url) == Response(Arr(<<Source("L", Undefined, Undefined, url)>>))

\* what askQuestion can reject with: an Error with a message, or some
\* other thrown value
Rejections ==
    { [isError |-> TRUE, message |-> "HTTP 500"],
      [isError |-> TRUE, message |-> "timeout"],
      [isError |-> FALSE, message |-> ""] }

------------------------------------------------------------------------------
(* Derived values of a render *)

\* a settle that forgets the default citation
FirstSource_none(response) == JSNull

\* response.sources?.[0] ?? null
FirstSource(response) ==
    IF response = JSNull THEN JSNull
    ELSE IF response.sources.t # "array" THEN JSNull
    ELSE IF Len(response.sources.v) = 0 THEN JSNull
    ELSE response.sources.v[1]

\* the rows of the citation list: rendered only under an answer whose
\* sources are a non-empty array
Rows ==
    IF answer = JSNull THEN <<>>
    ELSE IF answer.sources.t # "array" THEN <<>>
    ELSE answer.sources.v

resolvedSource ==
    IF selectedSource # JSNull THEN selectedSource ELSE FirstSource(answer)

\* the placeholder shown when no source is resolved
NoSourceLabel == "Chua chon nguon"

resolvedSourceLabel ==
    IF resolvedSource = JSNull THEN NoSourceLabel
    ELSE LET pageSuffix ==
                 IF Truthy(resolvedSource.page_number)
                 THEN " - trang " \o Text(resolvedSource.page_number)
                 ELSE ""
         IN  resolvedSource.label \o pageSuffix

\* x?.viewer_url
OptViewerUrl(x) == IF x = JSNull THEN Undefined ELSE x.viewer_url

\* x?.label === label: undefined never equals a label
OptLabelIs(x, label) == x # JSNull /\ x.label = label

isActive(source) ==
    \/ /\ OptViewerUrl(resolvedSource) = source.viewer_url
       /\ OptLabelIs(resolvedSource, source.label)
    \/ OptLabelIs(selectedSource, source.label)

\* the key of the row at 0-based index idx
key(source, idx) ==
    Text(Nullish(source.file_name, Str(source.label))) \o "-"
        \o Text(Nullish(source.page_number, Num(idx)))

------------------------------------------------------------------------------
(* Text, URL and URLSearchParams, as far as previewUrl uses them.  The     *)
(* links of the model are in serialised form and use no character that     *)
(* percent-encoding would touch, so parsing and serialising work on the    *)
(* characters as they stand.                                               *)

\* the position of the first c in s, 0 when there is none
IndexOf(s, c) ==
    LET hits == {i \in 1..Len(s) : SubSeq(s, i, i) = c}
    IN  IF hits = {} THEN 0
        ELSE CHOOSE i \in hits : \A j \in hits : i <= j

StartsWith(s, prefix) ==
    Len(s) >= Len(prefix) /\ SubSeq(s, 1, Len(prefix)) = prefix

RECURSIVE Split(_, _)
\* s.split(c)
Split(s, c) ==
    LET i == IndexOf(s, c)
    IN  IF i = 0 THEN <<s>>
        ELSE <<SubSeq(s, 1, i - 1)>> \o Split(SubSeq(s, i + 1, Len(s)), c)

\* one name=value piece of a parameter list; a piece without = has the
\* empty value
ParsePair(piece) ==
    LET i == IndexOf(piece, "=")
    IN  IF i = 0 THEN [name |-> piece, value |-> ""]
        ELSE [name |-> SubSeq(piece, 1, i - 1),
              value |-> SubSeq(piece, i + 1, Len(piece))]

\* new URLSearchParams(text): a leading ? is dropped, the pieces between &
\* are the entries, empty pieces are skipped
URLSearchParams(text) ==
    LET body == IF StartsWith(text, "?") THEN SubSeq(text, 2, Len(text))
                ELSE text
        pieces == SelectSeq(Split(body, "&"), LAMBDA p : p # "")
    IN  [i \in 1..Len(pieces) |-> ParsePair(pieces[i])]

\* params.delete(name): every entry of that name goes
ParamsDelete(params, name) == SelectSeq(params, LAMBDA p : p.name # name)

RECURSIVE ParamsToString(_)
\* params.toString()
ParamsToString(params) ==
    IF Len(params) = 0 THEN ""
    ELSE LET p == params[1].name \o "=" \o params[1].value
         IN  IF Len(params) = 1 THEN p
             ELSE p \o "&" \o ParamsToString(Tail(params))

\* whether new URL(text) accepts text: it needs a scheme and a valid host
URLParses(text) == StartsWith(text, "https://") /\ IndexOf(text, "[") = 0

\* new URL(text): the part before the first # and the fragment, null when
\* there is no #
URL(text) ==
    LET i == IndexOf(text, "#")
    IN  IF i = 0 THEN [base |-> text, fragment |-> JSNull]
        ELSE [base |-> SubSeq(text, 1, i - 1),
              fragment |-> Str(SubSeq(text, i + 1, Len(text)))]

\* url.hash: empty for a null or empty fragment
UrlHash(url) ==
    IF url.fragment = JSNull \/ url.fragment = Str("") THEN ""
    ELSE "#" \o url.fragment.v

\* url.hash = value: the empty string removes the fragment, otherwise the
\* fragment is value without its leading #
UrlSetHash(url, value) ==
    IF value = "" THEN [url EXCEPT !.fragment = JSNull]
    ELSE [url EXCEPT !.fragment =
              Str(IF StartsWith(value, "#") THEN SubSeq(value, 2, Len(value))
                  ELSE value)]

\* url.toString()
UrlToString(url) ==
    IF url.fragment = JSNull THEN url.base
    ELSE url.base \o "#" \o url.fragment.v

\* where the answer service is served from
ServiceOrigin == "https://host"

\* resolveViewerUrl of the client module: an absolute link as it is, a
\* rooted path under the service's origin, nothing for anything else
resolveViewerUrl(rawUrl) ==
    IF ~Truthy(rawUrl) THEN JSNull
    ELSE IF StartsWith(rawUrl.v, "https://") THEN rawUrl
    ELSE IF StartsWith(rawUrl.v, "/") THEN Str(ServiceOrigin \o rawUrl.v)
    ELSE JSNull

\* a try block that always writes "#" and the remaining parameters
StripSearch_keepsMarker(absolute) ==
    LET url == URL(absolute)
    IN  IF Len(UrlHash(url)) > 1
        THEN LET params == ParamsDelete(
                               URLSearchParams(
                                   SubSeq(UrlHash(url), 2, Len(UrlHash(url)))),
                               "search")
             IN  UrlToString(UrlSetHash(url, "#" \o ParamsToString(params)))
        ELSE UrlToString(url)

\* the try block of previewUrl
StripSearch(absolute) ==
    LET url == URL(absolute)
    IN  IF Len(UrlHash(url)) > 1
        THEN LET params == ParamsDelete(
                               URLSearchParams(
                                   SubSeq(UrlHash(url), 2, Len(UrlHash(url)))),
                               "search")
                 hash == ParamsToString(params)
             IN  UrlToString(UrlSetHash(url, IF hash # "" THEN "#" \o hash
                                             ELSE ""))
        ELSE UrlToString(url)

previewUrl ==
    IF ~Truthy(OptViewerUrl(resolvedSource)) THEN JSNull
    ELSE LET absolute == resolveViewerUrl(resolvedSource.viewer_url)
         IN  IF ~Truthy(absolute) THEN JSNull
             ELSE IF URLParses(absolute.v) THEN Str(StripSearch(absolute.v))
             ELSE Str(Split(absolute.v, "#")[1])

\* a submit button that is never disabled
submitDisabled_never == FALSE

\* the submit button's disabled attribute
submitDisabled == loading

------------------------------------------------------------------------------
(* The record of the step that led to the current state *)

Snap ==
    [request |-> request, answer |-> answer, selectedSource |-> selectedSource,
     loading |-> loading, error |-> error, expandedKey |-> expandedKey,
     answerHighlighted |-> answerHighlighted, pending |-> Len(inflight),
     timers |-> timers]

\* the step before, kept only when `keep`: a second toggle of the same key,
\* or a second settle in a row
Prev(keep) ==
    IF keep THEN [op |-> last.op, arg |-> last.arg, idx |-> last.idx,
                  pre |-> last.pre]
    ELSE JSNull

\* op and arg name the handler and its input; idx is the position of the
\* settled call among the pending ones; scrolled tells whether a timer
\* callback found its target; pre is the state the step started from
Step(op, arg, idx, scrolled, keep) ==
    [op |-> op, arg |-> arg, idx |-> idx, scrolled |-> scrolled,
     pre |-> Snap, prev |-> Prev(keep)]

Settles == {"success", "failure"}

------------------------------------------------------------------------------
(* The scroll helpers: window.setTimeout(callback, 0) *)

scrollAnswerIntoView(queue) == Append(queue, "answer")

\* a helper that keeps at most one preview scroll pending
scrollPreviewIntoView_coalesced(queue) ==
    IF \E i \in 1..Len(queue) : queue[i] = "preview" THEN queue
    ELSE Append(queue, "preview")

scrollPreviewIntoView(queue) == Append(queue, "preview")

\* the queue without its i-th entry
Without(queue, i) ==
    SubSeq(queue, 1, i - 1) \o SubSeq(queue, i + 1, Len(queue))

------------------------------------------------------------------------------
(* The state after construction *)

Init ==
    /\ request = DEFAULT_REQUEST
    /\ answer = JSNull
    /\ selectedSource = JSNull
    /\ loading = FALSE
    /\ error = JSNull
    /\ expandedKey = JSNull
    /\ answerHighlighted = FALSE
    /\ inflight = <<>>
    /\ timers = <<>>
    /\ last = [op |-> "init", arg |-> JSNull, idx |-> 0, scrolled |-> FALSE,
               pre |-> [request |-> DEFAULT_REQUEST, answer |-> JSNull,
                        selectedSource |-> JSNull, loading |-> FALSE,
                        error |-> JSNull, expandedKey |-> JSNull,
                        answerHighlighted |-> FALSE, pending |-> 0,
                        timers |-> <<>>],
               prev |-> JSNull]
    /\ done = [success |-> 0, select |-> 0, answer |-> 0, preview |-> 0]

------------------------------------------------------------------------------
(* handleSubmit *)

\* a submit that leaves the earlier error on screen
HandleSubmit_keepsError ==
    /\ Len(inflight) < MaxInFlight
    /\ loading' = TRUE
    /\ inflight' = Append(inflight, request)
    /\ last' = Step("submit", JSNull, Len(inflight) + 1, FALSE, FALSE)
    /\ UNCHANGED <<request, answer, selectedSource, expandedKey,
                   answerHighlighted, timers, error>>

\* a submit that also takes the highlight off the answer on display
HandleSubmit_clearsHighlight ==
    /\ Len(inflight) < MaxInFlight
    /\ loading' = TRUE
    /\ error' = JSNull
    /\ answerHighlighted' = FALSE
    /\ inflight' = Append(inflight, request)
    /\ last' = Step("submit", JSNull, Len(inflight) + 1, FALSE, FALSE)
    /\ UNCHANGED <<request, answer, selectedSource, expandedKey, timers>>

\* up to the await: the call to askQuestion(request) is issued
HandleSubmit ==
    /\ Len(inflight) < MaxInFlight
    /\ loading' = TRUE
    /\ error' = JSNull
    /\ inflight' = Append(inflight, request)
    /\ last' = Step("submit", JSNull, Len(inflight) + 1, FALSE, FALSE)
    /\ UNCHANGED <<request, answer, selectedSource, expandedKey,
                   answerHighlighted, timers>>

\* a click on the submit button
ClickSubmit ==
    /\ ~submitDisabled
    /\ HandleSubmit

\* a catch block without the instanceof test
FailureMessage_noFallback(err) == err.message

\* the message the catch block shows
FailureMessage(err) ==
    IF err.isError THEN err.message ELSE "Failed to reach backend"

\* a success that keeps the selection made under the answer before
SettleSuccess_keepsSelection(i, response) ==
    /\ i \in 1..Len(inflight)
    /\ Len(timers) < MaxTimers
    /\ answer' = response
    /\ expandedKey' = JSNull
    /\ answerHighlighted' = TRUE
    /\ timers' = scrollAnswerIntoView(timers)
    /\ loading' = FALSE
    /\ inflight' = Without(inflight, i)
    /\ last' = Step("success", response, i, FALSE, last.op \in Settles)
    /\ UNCHANGED <<request, error, selectedSource>>

\* the i-th pending call resolves with response: the try block, then finally
SettleSuccess(i, response) ==
    /\ i \in 1..Len(inflight)
    /\ Len(timers) < MaxTimers
    /\ answer' = response
    /\ selectedSource' = FirstSource(response)
    /\ expandedKey' = JSNull
    /\ answerHighlighted' = TRUE
    /\ timers' = scrollAnswerIntoView(timers)
    /\ loading' = FALSE
    /\ inflight' = Without(inflight, i)
    /\ last' = Step("success", response, i, FALSE, last.op \in Settles)
    /\ UNCHANGED <<request, error>>

\* a catch block that forgets the highlight
SettleFailure_keepsHighlight(i, err) ==
    /\ i \in 1..Len(inflight)
    /\ error' = Str(FailureMessage(err))
    /\ answer' = JSNull
    /\ loading' = FALSE
    /\ inflight' = Without(inflight, i)
    /\ last' = Step("failure", err, i, FALSE, last.op \in Settles)
    /\ UNCHANGED <<request, selectedSource, expandedKey, timers,
                   answerHighlighted>>

\* the i-th pending call rejects with err: the catch block, then finally
SettleFailure(i, err) ==
    /\ i \in 1..Len(inflight)
    /\ error' = Str(FailureMessage(err))
    /\ answer' = JSNull
    /\ answerHighlighted' = FALSE
    /\ loading' = FALSE
    /\ inflight' = Without(inflight, i)
    /\ last' = Step("failure", err, i, FALSE, last.op \in Settles)
    /\ UNCHANGED <<request, selectedSource, expandedKey, timers>>

------------------------------------------------------------------------------
(* The citation list *)

handleSourceClick(source, op) ==
    /\ Len(timers) < MaxTimers
    /\ selectedSource' = source
    /\ answerHighlighted' = FALSE
    /\ timers' = scrollPreviewIntoView(timers)
    /\ last' = Step(op, source, 0, FALSE, FALSE)
    /\ UNCHANGED <<request, answer, loading, error, expandedKey, inflight>>

\* a click on the row at i: handleSourceClick, and the click bubbles to the
\* answer card, whose clearAnswerHighlight sets the same false again
ClickRow(i) ==
    /\ i \in 1..Len(Rows)
    /\ handleSourceClick(Rows[i], "select")

\* a quick-view button without stopPropagation: the row's onClick runs
\* handleSourceClick a second time
ClickQuickView_bubbles(i) ==
    /\ i \in 1..Len(Rows)
    /\ Len(timers) + 1 < MaxTimers
    /\ selectedSource' = Rows[i]
    /\ answerHighlighted' = FALSE
    /\ timers' = scrollPreviewIntoView(scrollPreviewIntoView(timers))
    /\ last' = Step("quickview", Rows[i], 0, FALSE, FALSE)
    /\ UNCHANGED <<request, answer, loading, error, expandedKey, inflight>>

\* a click on the row's quick-view button: stopPropagation,
\* clearAnswerHighlight, handleSourceClick
ClickQuickView(i) ==
    /\ i \in 1..Len(Rows)
    /\ handleSourceClick(Rows[i], "quickview")

\* an expand button that never collapses
Toggled_expands(k) == Str(k)

\* what the expand button of a row with this key stores
Toggled(k) == IF expandedKey = Str(k) THEN JSNull ELSE Str(k)

\* an expand button without stopPropagation: the click reaches the row
ToggleExpand_bubbles(i) ==
    /\ i \in 1..Len(Rows)
    /\ Len(timers) < MaxTimers
    /\ LET k == key(Rows[i], i - 1)
       IN  /\ expandedKey' = Toggled(k)
           /\ last' = Step("toggle", Str(k), 0, FALSE,
                           last.op = "toggle" /\ last.arg = Str(k))
    /\ answerHighlighted' = FALSE
    /\ selectedSource' = Rows[i]
    /\ timers' = scrollPreviewIntoView(timers)
    /\ UNCHANGED <<request, answer, loading, error, inflight>>

\* a click on the row's expand button: stopPropagation,
\* clearAnswerHighlight, setExpandedKey(isExpanded ? null : key)
ToggleExpand(i) ==
    /\ i \in 1..Len(Rows)
    /\ LET k == key(Rows[i], i - 1)
       IN  /\ expandedKey' = Toggled(k)
           /\ last' = Step("toggle", Str(k), 0, FALSE,
                           last.op = "toggle" /\ last.arg = Str(k))
    /\ answerHighlighted' = FALSE
    /\ UNCHANGED <<request, answer, selectedSource, loading, error, inflight,
                   timers>>

------------------------------------------------------------------------------
(* The answer card and the textarea *)

\* a click on, or focus entering, the answer card outside the rows
clearAnswerHighlight ==
    /\ answer # JSNull
    /\ answerHighlighted' = FALSE
    /\ last' = Step("clear", JSNull, 0, FALSE, FALSE)
    /\ UNCHANGED <<request, answer, selectedSource, loading, error,
                   expandedKey, inflight, timers>>

\* an update that builds a fresh request instead of spreading prev
WithQuestion_fresh(prev, value) ==
    [question |-> value, top_k |-> 0, pool_size |-> 0, rerank |-> FALSE]

\* { ...prev, question: value }
WithQuestion(prev, value) == [prev EXCEPT !.question = value]

handleInputChange(value) ==
    /\ request' = WithQuestion(request, value)
    /\ answerHighlighted' = FALSE
    /\ last' = Step("edit", Str(value), 0, FALSE, FALSE)
    /\ UNCHANGED <<answer, selectedSource, loading, error, expandedKey,
                   inflight, timers>>

------------------------------------------------------------------------------
(* The timer callbacks *)

\* the oldest timer fires: its target exists only while an answer is shown
RunTimer ==
    /\ timers # <<>>
    /\ timers' = Tail(timers)
    /\ last' = Step("timer", Str(Head(timers)), 0, answer # JSNull, FALSE)
    /\ UNCHANGED <<request, answer, selectedSource, loading, error,
                   expandedKey, answerHighlighted, inflight>>

------------------------------------------------------------------------------
(* The specifications *)

\* the steps other than a submission; done is not counted here
UserOrEnvironment ==
    \/ \E i \in 1..MaxInFlight, r \in Responses :
           SettleSuccess(i, r) /\ UNCHANGED done
    \/ \E i \in 1..MaxInFlight, e \in Rejections :
           SettleFailure(i, e) /\ UNCHANGED done
    \/ \E i \in 1..Len(Rows) : ClickRow(i) /\ UNCHANGED done
    \/ \E i \in 1..Len(Rows) : ClickQuickView(i) /\ UNCHANGED done
    \/ \E i \in 1..Len(Rows) : ToggleExpand(i) /\ UNCHANGED done
    \/ clearAnswerHighlight /\ UNCHANGED done
    \/ \E q \in Questions : handleInputChange(q) /\ UNCHANGED done
    \/ RunTimer /\ UNCHANGED done

\* submissions come from the submit button only
Next ==
    \/ ClickSubmit /\ UNCHANGED done
    \/ UserOrEnvironment

Spec == Init /\ [][Next]_vars

\* the submit transition invoked directly, whatever loading is
NextDirect ==
    \/ HandleSubmit /\ UNCHANGED done
    \/ UserOrEnvironment

SpecDirect == Init /\ [][NextDirect]_vars

\* submissions whose answers cite one source each, under every viewer link
NextUrl ==
    \/ ClickSubmit /\ UNCHANGED done
    \/ \E u \in ViewerUrls :
           SettleSuccess(1, LinkResponse(u)) /\ UNCHANGED done
    \/ RunTimer /\ UNCHANGED done

SpecUrl == Init /\ [][NextUrl]_vars

\* 1 when the step just taken is op (with that input, for a timer)
Took(op) == IF last'.op = op THEN 1 ELSE 0

Fired(kind) == IF last'.op = "timer" /\ last'.arg = Str(kind) THEN 1 ELSE 0

\* done counts the successful settles, the selections and the timer
\* callbacks that have run, up to MaxScrolls requests
Counted ==
    /\ done' = [success |-> done.success + Took("success"),
                select |-> done.select + Took("select") + Took("quickview"),
                answer |-> done.answer + Fired("answer"),
                preview |-> done.preview + Fired("preview")]
    /\ done'.success + done'.select <= MaxScrolls

\* the page with its scroll requests and timer callbacks counted
NextScroll ==
    \/ ClickSubmit /\ Counted
    \/ \E r \in {Response(Arr(<<>>)), Response(Arr(<<srcA3, srcB>>))} :
           SettleSuccess(1, r) /\ Counted
    \/ \E e \in {[isError |-> FALSE, message |-> ""]} :
           SettleFailure(1, e) /\ Counted
    \/ \E i \in 1..Len(Rows) : ClickRow(i) /\ Counted
    \/ \E i \in 1..Len(Rows) : ClickQuickView(i) /\ Counted
    \/ \E i \in 1..Len(Rows) : ToggleExpand(i) /\ Counted
    \/ clearAnswerHighlight /\ Counted
    \/ handleInputChange("q1") /\ Counted
    \/ RunTimer /\ Counted

\* the event loop runs every timer that is due
SpecScroll == Init /\ [][NextScroll]_vars /\ WF_vars(RunTimer /\ Counted)

------------------------------------------------------------------------------
(* The settle steps of a submission *)

\* C1: after a submission settles successfully with response R, Response is
\* R, selectedCitation is R.sources[0] (null when the list is empty or
\* absent), expandedKey is null, answerHighlighted is true, loading is false
\* and the step has scheduled exactly one scroll-to-answer, whatever the
\* state before the settle was.
C1_SuccessSettle ==
    last.op = "success" =>
        /\ answer = last.arg
        /\ selectedSource =
               IF last.arg.sources.t = "array" /\ Len(last.arg.sources.v) > 0
               THEN last.arg.sources.v[1]
               ELSE JSNull
        /\ expandedKey = JSNull
        /\ answerHighlighted = TRUE
        /\ loading = FALSE
        /\ timers = last.pre.timers \o <<"answer">>

\* a success that replaces an answer under which another citation was
\* selected and an excerpt was expanded
C1_Witness ==
    /\ last.op = "success"
    /\ last.pre.answer # JSNull
    /\ last.pre.expandedKey # JSNull
    /\ last.pre.selectedSource # JSNull
    /\ selectedSource # JSNull
    /\ selectedSource # last.pre.selectedSource

\* C2: after a submission settles with a failure, Response is null, error
\* is the failure's message (the generic message when the thrown value is no
\* Error), answerHighlighted and loading are false and no scroll has been
\* scheduled, also when an answer was displayed before.
C2_FailureSettle ==
    last.op = "failure" =>
        /\ answer = JSNull
        /\ error = Str(IF last.arg.isError THEN last.arg.message
                       ELSE "Failed to reach backend")
        /\ answerHighlighted = FALSE
        /\ loading = FALSE
        /\ timers = last.pre.timers

\* a thrown value that is no Error discards a highlighted answer
C2_Witness ==
    /\ last.op = "failure"
    /\ ~last.arg.isError
    /\ last.pre.answer # JSNull
    /\ last.pre.answerHighlighted

\* C3: the Request draft changes only in a question edit, which replaces
\* question and keeps top_k, pool_size and rerank; every other step leaves
\* the whole draft as it was.
C3_DraftFrame ==
    /\ last.op = "edit" =>
           /\ request.question = last.arg.v
           /\ request.top_k = last.pre.request.top_k
           /\ request.pool_size = last.pre.request.pool_size
           /\ request.rerank = last.pre.request.rerank
    /\ last.op # "edit" => request = last.pre.request

\* an edited question is still there after a failed submission
C3_Witness ==
    /\ last.op = "failure"
    /\ request.question # DEFAULT_REQUEST.question
    /\ request = last.pre.request

\* C4: a submit step sets loading and clears error while its call is
\* pending and leaves Response, selectedCitation, expandedKey and
\* answerHighlighted as they were; error goes from a message to null in no
\* other step.
C4_SubmitPending ==
    /\ last.op = "submit" =>
           /\ loading = TRUE
           /\ error = JSNull
           /\ Len(inflight) = last.pre.pending + 1
           /\ answer = last.pre.answer
           /\ selectedSource = last.pre.selectedSource
           /\ expandedKey = last.pre.expandedKey
           /\ answerHighlighted = last.pre.answerHighlighted
    /\ (last.pre.error # JSNull /\ error = JSNull) => last.op = "submit"

\* a resubmission after a failed submission
C4_Witness ==
    /\ last.op = "submit"
    /\ last.pre.error # JSNull
    /\ error = JSNull

------------------------------------------------------------------------------
(* The citation list *)

Selects == {"select", "quickview"}

\* C5: right after selectCitation(B) for a citation B of the list, B is
\* active, every other entry of the list is not, also one that shares B's
\* label on another page or link, and answerHighlighted is false.
C5_SelectExclusive ==
    last.op \in Selects =>
        /\ isActive(last.arg)
        /\ \A i \in 1..Len(Rows) : Rows[i] # last.arg => ~isActive(Rows[i])
        /\ answerHighlighted = FALSE

\* C6 as written: two toggleExpand(k) in a row leave expandedKey none,
\* whatever it was before the first.
C6_ToggleTwiceNone ==
    (last.op = "toggle" /\ last.prev # JSNull) => expandedKey = JSNull

\* C6: two toggleExpand(k) in a row leave expandedKey none when it was none
\* or another key before the first, and leave it k when it was k.
C6_ToggleTwice ==
    (last.op = "toggle" /\ last.prev # JSNull) =>
        expandedKey = IF last.prev.pre.expandedKey = last.arg
                      THEN last.arg
                      ELSE JSNull

\* a second toggle of k after another row's excerpt was expanded
C6_Witness ==
    /\ last.op = "toggle"
    /\ last.prev # JSNull
    /\ last.prev.pre.expandedKey # JSNull
    /\ last.prev.pre.expandedKey # last.arg
    /\ last.pre.expandedKey = last.arg
    /\ expandedKey = JSNull

------------------------------------------------------------------------------
(* The resolved citation and its label *)

\* C7: whenever the Response on display has an empty citation list, the
\* resolved citation is none and the label is the placeholder, whatever was
\* selected under earlier responses.
C7_EmptyListResolvesNone ==
    (answer # JSNull /\ Rows = <<>>) =>
        /\ resolvedSource = JSNull
        /\ resolvedSourceLabel = NoSourceLabel

\* an answer without citations replaces one under which a citation was
\* selected
C7_Witness ==
    /\ last.op = "success"
    /\ answer.sources = Arr(<<>>)
    /\ last.pre.selectedSource # JSNull
    /\ last.pre.answer # JSNull

\* C8: right after a success with a non-empty list the resolved citation is
\* sources[0]; a resolved citation's label is its label plus the page
\* suffix exactly when page_number is neither missing, null nor 0; the
\* placeholder is shown only when nothing is resolved.
C8_ResolvedLabel ==
    /\ (last.op = "success" /\ Rows # <<>>) =>
           resolvedSource = answer.sources.v[1]
    /\ resolvedSource # JSNull =>
           LET page == resolvedSource.page_number
           IN  resolvedSourceLabel =
                   IF page \in {Undefined, JSNull, Num(0)}
                   THEN resolvedSource.label
                   ELSE resolvedSource.label \o " - trang "
                            \o ToString(page.v)
    /\ resolvedSourceLabel = NoSourceLabel => resolvedSource = JSNull

\* the success with sources A (page 3) and B (page null)
C8_Witness ==
    /\ last.op = "success"
    /\ answer.sources = Arr(<<srcA3, srcB>>)
    /\ resolvedSource = srcA3
    /\ resolvedSourceLabel = "A - trang 3"

------------------------------------------------------------------------------
(* Overlapping submissions *)

\* C9: the submit button is disabled exactly while loading, so with
\* submissions coming from the button at most one call is pending and
\* loading is true exactly while one is.
C9_OneCallInFlight ==
    /\ submitDisabled <=> loading
    /\ Len(inflight) <= 1
    /\ loading <=> Len(inflight) = 1

\* the user acts on the page while the one call is pending
C9_Witness ==
    /\ loading
    /\ submitDisabled
    /\ Len(inflight) = 1
    /\ last.op \in Selects

\* C10: when two calls were pending together and both have settled, one
\* right after the other, the state is the one the last settle alone gives
\* from the state in which both were pending: nothing of the first settle
\* is left.
C10_LastSettleWins ==
    (/\ last.op \in Settles
     /\ last.prev # JSNull
     /\ last.prev.pre.pending = 2
     /\ Len(inflight) = 0) =>
        LET base == last.prev.pre
        IN  IF last.op = "success"
            THEN /\ answer = last.arg
                 /\ selectedSource = FirstSource(last.arg)
                 /\ expandedKey = JSNull
                 /\ answerHighlighted = TRUE
                 /\ loading = FALSE
                 /\ error = base.error
            ELSE /\ answer = JSNull
                 /\ error = Str(FailureMessage(last.arg))
                 /\ answerHighlighted = FALSE
                 /\ loading = FALSE
                 /\ selectedSource = base.selectedSource
                 /\ expandedKey = base.expandedKey

------------------------------------------------------------------------------
(* The highlight of the answer *)

\* the highlight was on before the last step and is off after it
HighlightTurnedOff == last.pre.answerHighlighted /\ ~answerHighlighted

------------------------------------------------------------------------------
(* The preview link *)

\* the link previewUrl starts from, and what the resolver makes of it
RawUrl == OptViewerUrl(resolvedSource)

AbsoluteUrl == resolveViewerUrl(RawUrl)

\* the entries of a fragment that are not named search, in their order
KeptEntries(fragment) ==
    LET all == URLSearchParams(fragment)
        keep == {i \in 1..Len(all) : all[i].name # "search"}
        RECURSIVE Pick(_)
        Pick(i) == IF i > Len(all) THEN <<>>
                   ELSE IF i \in keep THEN <<all[i]>> \o Pick(i + 1)
                   ELSE Pick(i + 1)
    IN  Pick(1)

\* out is the link `absolute` with the search entries taken out of its
\* fragment, and without # when no entry is left
SearchRemoved(absolute, out) ==
    LET in == URL(absolute)
        kept == KeptEntries(in.fragment.v)
        i == IndexOf(out, "#")
    IN  IF Len(kept) = 0 THEN out = in.base
        ELSE /\ i > 0
             /\ SubSeq(out, 1, i - 1) = in.base
             /\ URLSearchParams(SubSeq(out, i + 1, Len(out))) = kept

------------------------------------------------------------------------------
(* Expanding and selecting a citation *)

\* the rows whose excerpt is shown
ExpandedRows == {i \in 1..Len(Rows) : expandedKey = Str(key(Rows[i], i - 1))}

\* C13: toggleExpand(k) collapses k when k was expanded and expands k
\* otherwise, so at most one row shows its excerpt; it clears the
\* highlight, leaves selectedCitation, Response, error, loading and the
\* draft as they were and schedules no scroll: the row's selectCitation
\* does not fire.
C13_ToggleFrame ==
    /\ Cardinality(ExpandedRows) <= 1
    /\ last.op = "toggle" =>
           /\ expandedKey = IF last.pre.expandedKey = last.arg THEN JSNull
                            ELSE last.arg
           /\ answerHighlighted = FALSE
           /\ selectedSource = last.pre.selectedSource
           /\ answer = last.pre.answer
           /\ error = last.pre.error
           /\ loading = last.pre.loading
           /\ request = last.pre.request
           /\ timers = last.pre.timers

\* the excerpt of the second row is expanded under a highlighted answer
\* while the first row stays selected
C13_Witness ==
    /\ last.op = "toggle"
    /\ last.arg = Str("B-1")
    /\ last.pre.answerHighlighted
    /\ expandedKey = Str("B-1")
    /\ ExpandedRows = {2}
    /\ selectedSource = srcA3

------------------------------------------------------------------------------
(* The active row *)

\* the key of the row at i
RowKey(i) == key(Rows[i], i - 1)

\* the keys under which the resolved citation is listed
ResolvedKeys == {RowKey(j) : j \in {j \in 1..Len(Rows) : Rows[j] = resolvedSource}}

ActiveRows == {i \in 1..Len(Rows) : isActive(Rows[i])}

KeysUnique == \A i, j \in 1..Len(Rows) : RowKey(i) = RowKey(j) => i = j

\* C14: under a Response, a row is active exactly when its key is the key
\* of the resolved citation; so a non-empty list with unique keys has
\* exactly one active row.
C14_ActiveIffKey ==
    answer # JSNull =>
        /\ \A i \in 1..Len(Rows) : (i \in ActiveRows) <=> (RowKey(i) \in ResolvedKeys)
        /\ (Rows # <<>> /\ KeysUnique) => Cardinality(ActiveRows) = 1

------------------------------------------------------------------------------
(* The state without an answer *)

\* C15: whenever Response is null, selectedCitation and expandedKey are
\* null too, so no citation is resolved and no preview link is computed
\* from a discarded answer.
C15_NoAnswerNoSelection ==
    answer = JSNull =>
        /\ selectedSource = JSNull
        /\ expandedKey = JSNull
        /\ resolvedSource = JSNull
        /\ previewUrl = JSNull

------------------------------------------------------------------------------
(* The deferred scrolls *)

Pending(kind) == Cardinality({i \in 1..Len(timers) : timers[i] = kind})

\* every request is a timer of its own until its callback has run
ScrollsCounted ==
    /\ done.success = done.answer + Pending("answer")
    /\ done.select = done.preview + Pending("preview")
    /\ last.op \in {"toggle", "edit", "failure", "clear"} =>
           timers = last.pre.timers
    /\ last.op = "timer" => timers = Tail(last.pre.timers)

\* C16: no scroll request is cancelled or coalesced and each is executed
\* once, after the step that asked for it: the k successful settles and m
\* selections so far have k scroll-to-answer and m scroll-to-preview
\* callbacks run or still pending, once no timer is pending exactly k and
\* m have run, and the n-th request of either kind is eventually executed;
\* toggleExpand, edits, failed settles and answer-card interactions request
\* nothing.
C16_ScrollsAllRun ==
    /\ []ScrollsCounted
    /\ \A n \in 1..MaxScrolls :
           /\ (done.success >= n) ~> (done.answer >= n)
           /\ (done.select >= n) ~> (done.preview >= n)

\* two answers and a selection, and all three callbacks have run
C16_Witness ==
    /\ done.success = 2
    /\ done.select = 1
    /\ done.answer = 2
    /\ done.preview = 1
    /\ timers = <<>>
    /\ last.op = "timer"
    /\ Len(last.pre.timers) = 1

------------------------------------------------------------------------------
(* Selecting a citation *)

\* C17: selectCitation(c), from the row or from its quick-view button,
\* sets selectedCitation to c, clears the highlight and schedules exactly
\* one scroll-to-preview; Response, expandedKey, error, loading and the
\* draft stay as they were.
C17_SelectFrame ==
    last.op \in Selects =>
        /\ selectedSource = last.arg
        /\ answerHighlighted = FALSE
        /\ timers = last.pre.timers \o <<"preview">>
        /\ answer = last.pre.answer
        /\ expandedKey = last.pre.expandedKey
        /\ error = last.pre.error
        /\ loading = last.pre.loading
        /\ request = last.pre.request

\* the quick-view button of the second row under a highlighted answer
C17_Witness ==
    /\ last.op = "quickview"
    /\ last.pre.answerHighlighted
    /\ last.pre.selectedSource = srcA3
    /\ selectedSource = srcB

------------------------------------------------------------------------------
(* Invariants of the session state *)

\* C18: with submissions coming from the button only, an error is never on
\* display together with an answer.
C18_ErrorOrAnswer == ~(error # JSNull /\ answer # JSNull)

\* a failure takes the place of the answer on display
C18_Witness ==
    /\ last.op = "failure"
    /\ last.pre.answer # JSNull
    /\ last.pre.error = JSNull
    /\ error # JSNull
    /\ answer = JSNull

\* C19: the highlight is on only under a Response, it goes on only in a
\* successful settle, and the state after construction has no answer, no
\* selection, no expanded key, no error and neither highlight nor loading.
C19_HighlightNeedsAnswer ==
    /\ answerHighlighted => answer # JSNull
    /\ (~last.pre.answerHighlighted /\ answerHighlighted) =>
           last.op = "success"
    /\ last.op = "init" =>
           /\ answerHighlighted = FALSE
           /\ answer = JSNull
           /\ selectedSource = JSNull
           /\ expandedKey = JSNull
           /\ loading = FALSE
           /\ error = JSNull

\* the highlight stays on while two further calls are pending
C19_Witness ==
    /\ answerHighlighted
    /\ answer # JSNull
    /\ last.op = "submit"
    /\ Len(inflight) = 2

\* C20: under a Response the selected citation is null or one of the
\* Response's own citations, also after overlapping submissions that
\* settle out of order.
C20_SelectionFromAnswer ==
    answer # JSNull =>
        \/ selectedSource = JSNull
        \/ \E i \in 1..Len(Rows) : Rows[i] = selectedSource

\* the earlier call resolves after the later one, with other citations
C20_Witness ==
    /\ last.op = "success"
    /\ last.prev # JSNull
    /\ last.prev.op = "success"
    /\ last.prev.idx = 2
    /\ last.pre.selectedSource # JSNull
    /\ \A i \in 1..Len(Rows) : Rows[i] # last.pre.selectedSource
    /\ Len(Rows) > 0
    /\ selectedSource = Rows[1]

====
